---- MODULE Spec2Model ----
(***************************************************************************)
(* A model of the token aggregation service: the retrying fetch client,    *)
(* the Redis-backed cache store, the two scheduler jobs, the query handler *)
(* and the websocket broadcast gateway.                                    *)
(*                                                                         *)
(* Each component has its own specification (SpecRetry, SpecQuery,         *)
(* SpecTicker, SpecGateway, SpecAgg); a specification moves the variables  *)
(* of its component and leaves the others at their initial values.         *)
(***************************************************************************)
EXTENDS Integers, Sequences, FiniteSets, TLC

VARIABLES
    \* ---- fetchWithRetry (one call) ----
    frPc,        \* "idle" | "request" | "sleep" | "returned" | "thrown"
    retries,     \* the retries argument of the call
    i,           \* the loop index
    requests,    \* statuses of the axios.get calls issued so far, in order
    delays,      \* the backoff delays slept so far, in order (ms)
    frResult,    \* what the call resolved / rejected with
    \* ---- time and the Redis key/value store ----
    now,         \* seconds since the process started
    horizon,     \* the model stops the clock here (never changes)
    phase,       \* wall-clock seconds past a 5-minute mark at start (never changes)
    kv,          \* Redis: key -> [val, exp], defined on the live keys only
    \* ---- runFullAggregation ----
    aggRun,      \* run slot -> [pc, settled, raw, list, keyAtStart]
    aggDue,      \* the aggregation cron has fired and its task is about to run
    aggErrors,   \* whether the catch block of runFullAggregation has logged
    aggLast,     \* what the aggregation run that ended last did
    \* ---- getTokenList ----
    reqs,        \* request slot -> [pc, call, query, body]
    callSeq,     \* number of requests received so far
    viewWriter,  \* key -> number of the request whose setJson wrote it last
    ref,         \* a finished request, kept to compare later ones with
    last,        \* the request answered by the last step, if any
    \* ---- runRealtimeTicker ----
    tkRun,       \* run slot -> [pc, solOld, newPrice, published, issued]
    tickerDue,   \* the ticker cron has fired and its task is about to run
    tkLast,      \* what the ticker run that ended last did
    \* ---- Redis pub/sub, the websocket gateway, the process ----
    channel,     \* messages published and not yet handled by the subscriber
    clients,     \* the connected sockets
    rooms,       \* socket -> the rooms it has joined
    gwPrev,      \* what the handler did with the message before the last
    gwLast,      \* what the handler did with the last message
    alive        \* the Node process is running

retryVars == <<frPc, retries, i, requests, delays, frResult>>
clockVars == <<now, horizon, phase>>
aggVars == <<aggRun, aggDue, aggErrors, aggLast>>
queryVars == <<reqs, callSeq, viewWriter, ref, last>>
tickerVars == <<tkRun, tickerDue, tkLast>>
gwVars == <<clients, rooms, gwPrev, gwLast>>

vars ==
    <<retryVars, clockVars, kv, aggVars, queryVars, tickerVars, channel,
      gwVars, alive>>

\* What the actions of one component leave alone outside that component and
\* the state it shares (the clock, the store, the channel, the process).
retryFrame ==
    <<clockVars, kv, aggVars, queryVars, tickerVars, channel, gwVars, alive>>
aggFrame == <<retryVars, queryVars, tickerVars, channel, gwVars, alive>>
queryFrame == <<retryVars, tickerVars, channel, gwVars, alive>>
tickerFrame == <<retryVars, aggVars, queryVars, gwVars>>
gwFrame == <<retryVars, clockVars, kv, aggVars, queryVars, tickerVars>>

(***************************************************************************)
(* Bounds of the model.                                                    *)
(***************************************************************************)
MaxRetries == 3
MaxAggRuns == 2
Quantum == 15
AggHorizon == 40
MaxReqs == 1
MaxCalls == 2
QueryHorizon == 30
MaxTickerRuns == 2
TickerQuantum == 5
TickerHorizon == 15
MaxClients == 2
MaxChannel == 1
StoreHorizon == 30

(***************************************************************************)
(* 2. The cache store (redisClient) and the clock                          *)
(***************************************************************************)
CACHE_TTL_SECONDS == 30
CACHE_TTL == 30
TOKEN_LIST_KEY == "global_token_list"

\* null / undefined, and a present value v, as the sequences << >> and <<v>>.
Null == << >>
Some(v) == <<v>>

\* JSON.stringify and JSON.parse. The values stored are arrays and plain
\* objects of strings, finite numbers, booleans and null, which the round
\* trip returns unchanged; the text is kept as a tagged copy of the value.
JSONstringify(v) == <<"json", v>>
JSONparse(text) == text[2]

\* redis.get(key) then JSON.parse: null when the key is absent or expired.
getJson(key) ==
    IF key \in DOMAIN kv THEN Some(JSONparse(kv[key].val)) ELSE Null

CatalogReadable == getJson(TOKEN_LIST_KEY) # Null

\* redis.set(key, JSON.stringify(data), 'EX', ttl), ttl defaulting to
\* CACHE_TTL_SECONDS when the caller passes none: the store after the write.
setJson(key, data, ttl) ==
    LET t == IF ttl = Null THEN CACHE_TTL_SECONDS ELSE ttl[1]
    IN  [k \in DOMAIN kv \cup {key} |->
            IF k = key THEN [val |-> JSONstringify(data), exp |-> now + t]
                       ELSE kv[k]]

\* Redis drops a key once its EX time has passed.
Expire(store, t) ==
    [k \in {x \in DOMAIN store : store[x].exp > t} |-> store[k]]

AGGREGATION_PERIOD == 300

\* '*/5 * * * *': the cron fires when the wall clock passes a 5-minute mark.
AggCronFires(t1, t2) ==
    (t1 + phase) \div AGGREGATION_PERIOD < (t2 + phase) \div AGGREGATION_PERIOD

\* Time passes by q seconds and the keys whose time has come expire.
Tick(q) ==
    /\ now + q <= horizon
    /\ now' = now + q
    /\ kv' = Expire(kv, now + q)
    /\ UNCHANGED <<horizon, phase>>

\* The aggregation cron over a step of the clock. A cron that has fired
\* starts its task before time moves on.
aggCronTick(q) ==
    /\ ~aggDue
    /\ aggDue' = AggCronFires(now, now + q)
    /\ UNCHANGED <<aggRun, aggErrors, aggLast>>

\* Where in the 5-minute period the process starts.
Phases == {0, 280}

(***************************************************************************)
(* 3. mergeAndCleanTokenData and runFullAggregation                        *)
(***************************************************************************)
MOCK_TOP_TOKENS == <<"SOL", "JUP", "BONK", "WEN">>

\* The literal list the merge returns. Numbers are kept as integers: price
\* in 1e-6 USD, volume24h in 1000 USD, the price changes in 0.1 %.
mergeAndCleanTokenData(rawPairs) ==
    << [id |-> "SOL", price |-> 150250000, volume24h |-> 1500000,
        priceChange1h |-> 5, priceChange24h |-> 72],
       [id |-> "JUP", price |-> 850000, volume24h |-> 50000,
        priceChange1h |-> -12, priceChange24h |-> 31],
       [id |-> "BONK", price |-> 25, volume24h |-> 120000,
        priceChange1h |-> 21, priceChange24h |-> 155] >>

AggRuns == 1 .. MaxAggRuns
AggIdle_refetching ==
    [pc |-> "fetching", settled |-> Null, raw |-> << >>, list |-> << >>,
     keyAtStart |-> Null]

AggIdle ==
    [pc |-> "idle", settled |-> Null, raw |-> << >>, list |-> << >>,
     keyAtStart |-> Null]
AggFetching == [AggIdle EXCEPT !.pc = "fetching"]

\* Which of the two fetches of each symbol are fulfilled.
Symbols == {MOCK_TOP_TOKENS[k] : k \in 1 .. Len(MOCK_TOP_TOKENS)}
FetchPatterns == [Symbols -> [dex : BOOLEAN, jup : BOOLEAN]]
AllFulfilled == [s \in Symbols |-> [dex |-> TRUE, jup |-> TRUE]]
AllRejected == [s \in Symbols |-> [dex |-> FALSE, jup |-> FALSE]]
\* The patterns in which at most one symbol has a failed source, and the one
\* in which every fetch failed.
SomePatterns ==
    {p \in FetchPatterns :
        \/ p = AllRejected
        \/ Cardinality({s \in Symbols : p[s] # AllFulfilled[s]}) <= 1}

RawSourceResult_dexOnly(symbol, settled) ==
    [symbol |-> symbol,
     dexScreener |-> IF settled.dex THEN Some("pairs") ELSE Null,
     jupiterPrice |-> IF settled.dex THEN Some("entries") ELSE Null]

\* The object the map callback builds for one symbol from the settled pair.
RawSourceResult(symbol, settled) ==
    [symbol |-> symbol,
     dexScreener |-> IF settled.dex THEN Some("pairs") ELSE Null,
     jupiterPrice |-> IF settled.jup THEN Some("entries") ELSE Null]

RECURSIVE filterRaw(_)
filterRaw(rs) ==
    IF rs = << >> THEN << >>
    ELSE IF Head(rs).dexScreener # Null \/ Head(rs).jupiterPrice # Null
           THEN <<Head(rs)>> \o filterRaw(Tail(rs))
           ELSE filterRaw(Tail(rs))

\* (await Promise.all(fetchPromises)).filter(r => r.dexScreener || r.jupiterPrice)
rawResults(pattern) ==
    filterRaw([k \in 1 .. Len(MOCK_TOP_TOKENS) |->
                 RawSourceResult(MOCK_TOP_TOKENS[k], pattern[MOCK_TOP_TOKENS[k]])])

\* What a run that has ended leaves for the claims: how it ended, how its
\* fetches settled, what it merged, the catalog key when the run started and
\* when it ended, and whether its catch block logged an error.
NoAggRun == [outcome |-> "none"]
CatalogKeyNow ==
    IF TOKEN_LIST_KEY \in DOMAIN kv THEN Some(kv[TOKEN_LIST_KEY]) ELSE Null
AggEnded(run, outcome, keyAfter) ==
    [outcome |-> outcome, settled |-> run.settled, raw |-> run.raw,
     list |-> run.list, keyAtStart |-> run.keyAtStart, keyAfter |-> keyAfter,
     caught |-> outcome = "failed", at |-> now]

\* The cron task starts a run: the log line and the fetches are issued.
aggCron(r) ==
    /\ aggDue
    /\ aggRun[r].pc = "idle"
    /\ aggRun' = [aggRun EXCEPT ![r] =
                      [AggFetching EXCEPT !.keyAtStart = CatalogKeyNow]]
    /\ aggDue' = FALSE
    /\ UNCHANGED <<clockVars, kv, aggErrors, aggLast>>

\* Promise.all resolves (allSettled never rejects): filter, merge, and the
\* setJson of the catalog is issued.
aggFetched(r, pattern) ==
    /\ aggRun[r].pc = "fetching"
    /\ LET raw == rawResults(pattern)
       IN  aggRun' = [aggRun EXCEPT ![r] =
                         [pc |-> "storing", settled |-> Some(pattern),
                          raw |-> raw, list |-> mergeAndCleanTokenData(raw),
                          keyAtStart |-> aggRun[r].keyAtStart]]
    /\ UNCHANGED <<clockVars, kv, aggDue, aggErrors, aggLast>>

\* The redis.set of the catalog completes (ok) or rejects; a rejection is
\* caught and logged by the job. Either way the run is over.
aggStored(r, ok) ==
    /\ aggRun[r].pc = "storing"
    /\ LET after == setJson(TOKEN_LIST_KEY, aggRun[r].list, Null)
       IN  IF ok
             THEN /\ kv' = after
                  /\ aggLast' = AggEnded(aggRun[r], "stored",
                                         Some(after[TOKEN_LIST_KEY]))
                  /\ UNCHANGED aggErrors
             ELSE /\ aggErrors' = TRUE
                  /\ aggLast' = AggEnded(aggRun[r], "failed", CatalogKeyNow)
                  /\ UNCHANGED kv
    /\ aggRun' = [aggRun EXCEPT ![r] = AggIdle]
    /\ UNCHANGED <<clockVars, aggDue>>



(***************************************************************************)
(* 4. getTokenList                                                         *)
(***************************************************************************)
Digits == <<"0", "1", "2", "3", "4", "5", "6", "7", "8", "9">>
IsDigit(c) == \E d \in 1 .. 10 : Digits[d] = c
DigitValue(c) == (CHOOSE d \in 1 .. 10 : Digits[d] = c) - 1

\* Not-a-number, as an integer no computation of the model produces.
NaN == -999999999

\* Number.prototype.toString of a non-negative integer.
RECURSIVE toString(_)
toString(n) ==
    IF n < 10 THEN Digits[n + 1]
    ELSE toString(n \div 10) \o Digits[(n % 10) + 1]

RECURSIVE parseDigits(_, _, _)
parseDigits(str, k, acc) ==
    IF k > Len(str) \/ ~IsDigit(SubSeq(str, k, k)) THEN acc
    ELSE parseDigits(str, k + 1, acc * 10 + DigitValue(SubSeq(str, k, k)))

\* parseInt(str, 10): an optional sign and the longest prefix of digits;
\* NaN when there is no digit.
parseInt(str) ==
    LET neg  == Len(str) > 0 /\ SubSeq(str, 1, 1) = "-"
        from == IF neg \/ (Len(str) > 0 /\ SubSeq(str, 1, 1) = "+") THEN 2 ELSE 1
    IN  IF from > Len(str) \/ ~IsDigit(SubSeq(str, from, from)) THEN NaN
        ELSE IF neg THEN 0 - parseDigits(str, from, 0)
        ELSE parseDigits(str, from, 0)

Plus(a, b) == IF a = NaN \/ b = NaN THEN NaN ELSE a + b
LessThan(a, b) == a # NaN /\ b # NaN /\ a < b

\* Array.prototype.slice(start, end): a negative index counts from the end,
\* NaN is 0, and both are clamped to the array.
RelativeIndex(k, len) ==
    IF k = NaN THEN 0
    ELSE IF k < 0 THEN (IF len + k < 0 THEN 0 ELSE len + k)
    ELSE IF k > len THEN len ELSE k

slice(list, start, end) ==
    SubSeq(list, RelativeIndex(start, Len(list)) + 1,
           RelativeIndex(end, Len(list)))

NumericFields == {"price", "volume24h", "priceChange1h", "priceChange24h"}

\* (record[sortBy] || 0) as the comparator uses it. A field the records do
\* not have gives 0; the string field id makes every difference NaN, which
\* sort treats as 0, as if all keys were equal.
sortKey(record, sortBy) ==
    IF sortBy \in NumericFields THEN record[sortBy] ELSE 0

compare_ascending(a, b, sortBy) == sortKey(a, sortBy) - sortKey(b, sortBy)

\* The comparator (a, b) => (b[sortBy] || 0) - (a[sortBy] || 0).
compare(a, b, sortBy) == sortKey(b, sortBy) - sortKey(a, sortBy)

\* Array.prototype.sort is stable: x goes after every element that does not
\* compare greater than it.
RECURSIVE insertSorted(_, _, _)
insertSorted(sorted, x, sortBy) ==
    IF sorted = << >> THEN <<x>>
    ELSE IF compare(Head(sorted), x, sortBy) <= 0
           THEN <<Head(sorted)>> \o insertSorted(Tail(sorted), x, sortBy)
           ELSE <<x>> \o sorted

RECURSIVE sort(_, _)
sort(list, sortBy) ==
    IF list = << >> THEN << >>
    ELSE insertSorted(sort(SubSeq(list, 1, Len(list) - 1), sortBy),
                      list[Len(list)], sortBy)

\* req.query with its defaults: an absent parameter is Null.
DEFAULT_LIMIT == "20"
queryLimit(query) == IF query.limit = Null THEN DEFAULT_LIMIT ELSE query.limit[1]
querySortBy(query) == IF query.sortBy = Null THEN "volume24h" ELSE query.sortBy[1]
queryFilterBy(query) == IF query.filterBy = Null THEN "24h" ELSE query.filterBy[1]

\* `${TOKEN_LIST_KEY}_${limit}_${sortBy}_${filterBy}`
cacheKey(query) ==
    TOKEN_LIST_KEY \o "_" \o queryLimit(query) \o "_" \o querySortBy(query)
        \o "_" \o queryFilterBy(query)

\* nextCursor ? parseInt(nextCursor, 10) : 0 (the empty string is falsy too)
startIndex(query) ==
    IF query.nextCursor = Null \/ query.nextCursor[1] = "" THEN 0
    ELSE parseInt(query.nextCursor[1])

\* Steps 3 to 5 of the handler up to the setJson: the response body computed
\* from the catalog just read.
responseBody(fullList, query) ==
    LET sorted   == sort(fullList, querySortBy(query))
        start    == startIndex(query)
        limitInt == parseInt(queryLimit(query))
        stop     == Plus(start, limitInt)
    IN  [data |-> slice(sorted, start, stop),
         pagination |->
             [limit |-> limitInt,
              nextCursor |-> IF LessThan(stop, Len(sorted))
                               THEN Some(toString(stop)) ELSE Null],
         cached |-> FALSE,
         cacheTime |-> now]

Reqs == 1 .. MaxReqs
ReqIdle == [pc |-> "idle", call |-> Null, query |-> Null, body |-> Null]

\* What the model keeps of a finished request: its number, its query, the
\* status and body sent, when it read the view key and when it wrote it, the
\* request whose stored view it served, whether it arrived after ref had
\* finished, and whether the catalog was readable at any step of it.
NoCall == [no |-> 0]
Call(no, query) ==
    [no |-> no, query |-> query, readAt |-> now,
     afterRef |-> ref # NoCall, catalogSeen |-> getJson(TOKEN_LIST_KEY) # Null]
Finished(call, status, body, servedFrom, stored) ==
    [no |-> call.no, query |-> call.query, readAt |-> call.readAt,
     afterRef |-> call.afterRef,
     catalogSeen |-> call.catalogSeen \/ getJson(TOKEN_LIST_KEY) # Null,
     status |-> status, body |-> body, servedFrom |-> servedFrom,
     storedAt |-> IF stored THEN Some(now) ELSE Null]

\* res.status(status).json(body): the request is over.
respond(r, call, status, body, servedFrom, stored) ==
    /\ reqs' = [reqs EXCEPT ![r] = ReqIdle]
    /\ last' = Finished(call, status, body, servedFrom, stored)

\* The response to a view-cache hit: { ...cachedList, cached: true }.
cachedResponse_unflagged(cachedList) == cachedList
cachedResponse(cachedList) == [cachedList EXCEPT !.cached = TRUE]

\* A request arrives: the key is built and the view is read (ok: the Redis
\* read succeeded). A hit is answered at once, a failure goes to the catch.
gtCall(r, query, ok) ==
    /\ reqs[r].pc = "idle"
    /\ callSeq < MaxCalls
    /\ callSeq' = callSeq + 1
    /\ LET call == Call(callSeq + 1, query)
           cachedList == getJson(cacheKey(query))
       IN  IF ~ok
             THEN respond(r, call, 500, Null, 0, FALSE)
           ELSE IF cachedList # Null
             THEN respond(r, call, 200, Some(cachedResponse(cachedList[1])),
                          viewWriter[cacheKey(query)], FALSE)
           ELSE /\ reqs' = [reqs EXCEPT ![r] =
                               [pc |-> "readCatalog", call |-> Some(call),
                                query |-> Some(query), body |-> Null]]
                /\ last' = NoCall
    /\ UNCHANGED <<clockVars, kv, aggVars, viewWriter, ref>>

\* The catalog read completes: 503 without a catalog, else the view is
\* computed and its setJson issued.
gtCatalog(r, ok) ==
    /\ reqs[r].pc = "readCatalog"
    /\ LET call == reqs[r].call[1]
           fullList == getJson(TOKEN_LIST_KEY)
       IN  IF ~ok
             THEN respond(r, call, 500, Null, 0, FALSE)
           ELSE IF fullList = Null \/ Len(fullList[1]) = 0
             THEN respond(r, call, 503, Null, 0, FALSE)
           ELSE /\ reqs' = [reqs EXCEPT ![r].pc = "store",
                                        ![r].call = Some([call EXCEPT
                                                            !.catalogSeen = TRUE]),
                                        ![r].body = Some(responseBody(fullList[1],
                                                                      call.query))]
                /\ last' = NoCall
    /\ UNCHANGED <<clockVars, kv, aggVars, callSeq, viewWriter, ref>>

\* The setJson of the view completes and the computed body is sent.
gtStored(r, ok) ==
    /\ reqs[r].pc = "store"
    /\ LET call == reqs[r].call[1]
           key == cacheKey(call.query)
       IN  IF ok
             THEN /\ kv' = setJson(key, reqs[r].body[1], Some(CACHE_TTL))
                  /\ viewWriter' = [k \in DOMAIN viewWriter \cup {key} |->
                                       IF k = key THEN call.no ELSE viewWriter[k]]
                  /\ respond(r, call, 200, reqs[r].body, call.no, TRUE)
             ELSE /\ respond(r, call, 500, Null, 0, FALSE)
                  /\ UNCHANGED <<kv, viewWriter>>
    /\ UNCHANGED <<clockVars, aggVars, callSeq, ref>>

\* The observer keeps the request that has just finished as the first of a
\* pair.
observeFirst ==
    /\ ref = NoCall
    /\ last # NoCall
    /\ ref' = last
    /\ last' = NoCall
    /\ UNCHANGED <<clockVars, kv, aggVars, reqs, callSeq, viewWriter>>

\* The requests of the model: the request without parameters, and for
\* limit 1 the first page and the page its nextCursor leads to.
Queries ==
    {[limit |-> Null, sortBy |-> Null, filterBy |-> Null, nextCursor |-> Null]}
        \cup [limit : {Some("1")}, sortBy : {Some("priceChange1h")},
              filterBy : {Null}, nextCursor : {Some("0"), Some("1")}]

(***************************************************************************)
(* 5. runRealtimeTicker                                                    *)
(***************************************************************************)
REALTIME_CHANNEL == "token_price_updates"
TICKER_KEY == "ticker:SOL"
TICKER_TTL == 60
TICKER_PERIOD == 5

TickerRuns == 1 .. MaxTickerRuns
TickerIdle ==
    [pc |-> "idle", solOld |-> Null, newPrice |-> Null, published |-> << >>,
     issued |-> Null]
NoTickerRun == [outcome |-> "none"]

\* '*/5 * * * * *': the cron fires when the wall clock passes a 5-second mark.
TickerCronFires(t1, t2) ==
    (t1 + phase) \div TICKER_PERIOD < (t2 + phase) \div TICKER_PERIOD

tickerCronTick(q) ==
    /\ ~tickerDue
    /\ tickerDue' = (alive /\ TickerCronFires(now, now + q))
    /\ UNCHANGED <<tkRun, tkLast>>

\* parseFloat of a decimal string "ddd.ddd", as an integer number of
\* thousandths (prices of the model have at most three decimals); NaN when
\* the string does not start with a digit.
RECURSIVE countDigits(_, _)
countDigits(str, k) ==
    IF k > Len(str) \/ ~IsDigit(SubSeq(str, k, k)) THEN 0
    ELSE 1 + countDigits(str, k + 1)

parseFloat(str) ==
    LET n    == countDigits(str, 1)
        dot  == n < Len(str) /\ SubSeq(str, n + 1, n + 1) = "."
        m    == IF dot THEN countDigits(str, n + 2) ELSE 0
        frac == IF m = 0 THEN 0 ELSE parseDigits(SubSeq(str, n + 2, n + 1 + m), 1, 0)
        thousandths ==
            IF m = 0 THEN 0
            ELSE IF m = 1 THEN frac * 100
            ELSE IF m = 2 THEN frac * 10
            ELSE IF m = 3 THEN frac
            ELSE parseDigits(SubSeq(str, n + 2, n + 4), 1, 0)
    IN  IF n = 0 THEN NaN
        ELSE parseDigits(str, 1, 0) * 1000 + thousandths

\* solDex.sort((a, b) => (b.volume?.h24 || 0) - (a.volume?.h24 || 0))[0]: the
\* first pair of the greatest 24h volume (the sort is stable).
latestPair(solDex) ==
    solDex[CHOOSE k \in 1 .. Len(solDex) :
               /\ \A j \in 1 .. Len(solDex) : solDex[j].h24 <= solDex[k].h24
               /\ \A j \in 1 .. k - 1 : solDex[j].h24 < solDex[k].h24]

significantChange_atLeast(newPrice, oldPrice) ==
    IF newPrice >= oldPrice
      THEN (newPrice - oldPrice) * 10000 >= 5 * oldPrice
      ELSE (oldPrice - newPrice) * 10000 >= 5 * oldPrice

\* Math.abs(newPrice - solOld.price) / solOld.price > 0.0005, for the
\* positive prices of the model, without the division.
significantChange(newPrice, oldPrice) ==
    IF newPrice >= oldPrice
      THEN (newPrice - oldPrice) * 10000 > 5 * oldPrice
      ELSE (oldPrice - newPrice) * 10000 > 5 * oldPrice

tickerWrite_defaultTtl(newPrice) ==
    [key |-> TICKER_KEY, data |-> [price |-> newPrice], ttl |-> Null]

tickerWrite_catalogKey(newPrice) ==
    [key |-> TOKEN_LIST_KEY, data |-> [price |-> newPrice],
     ttl |-> Some(TICKER_TTL)]

\* The arguments of setJson('ticker:SOL', { price: newPrice }, 60).
tickerWrite(newPrice) ==
    [key |-> TICKER_KEY, data |-> [price |-> newPrice], ttl |-> Some(TICKER_TTL)]

\* What a ticker run that has ended leaves for the claims: how it ended, the
\* state it read, the price it computed, the events it published, the
\* setJson it issued, the ticker key before its last step and after it, how
\* the promise of the job settled, and whether the process survived the run.
TickerEnded(run, outcome, keyAfter, survived) ==
    [outcome |-> outcome, solOld |-> run.solOld, newPrice |-> run.newPrice,
     published |-> run.published, issued |-> run.issued,
     keyBefore |-> IF TICKER_KEY \in DOMAIN kv THEN Some(kv[TICKER_KEY]) ELSE Null,
     keyAfter |-> keyAfter,
     settled |-> IF outcome \in {"readFailed", "fetchFailed", "storeFailed"}
                   THEN "rejected" ELSE "fulfilled",
     alive |-> survived, at |-> now]

TickerKeyNow == IF TICKER_KEY \in DOMAIN kv THEN Some(kv[TICKER_KEY]) ELSE Null

\* The promise of runRealtimeTicker rejects: the function has no try/catch,
\* so the rejection leaves the job. node-cron is not part of this
\* repository: whether it swallows the rejection or the process ends on it
\* as unhandled is either (survives).
tkReject(r, run, outcome, survives) ==
    /\ tkRun' = [tkRun EXCEPT ![r] = TickerIdle]
    /\ tkLast' = TickerEnded(run, outcome, TickerKeyNow, survives)
    /\ alive' = survives

\* The cron task starts a run: the fetch is issued and the last known state
\* is read (okRead: the Redis read succeeded). A failed read rejects
\* Promise.all at once.
tkStart(r, okRead, survives) ==
    /\ alive
    /\ tickerDue
    /\ tkRun[r].pc = "idle"
    /\ tickerDue' = FALSE
    /\ LET run == [pc |-> "fetching", solOld |-> getJson(TICKER_KEY),
                   newPrice |-> Null, published |-> << >>, issued |-> Null]
       IN  IF okRead
             THEN /\ tkRun' = [tkRun EXCEPT ![r] = run]
                  /\ UNCHANGED <<tkLast, alive>>
             ELSE tkReject(r, [run EXCEPT !.solOld = Null], "readFailed", survives)
    /\ UNCHANGED <<clockVars, kv, channel>>

\* fetchDexScreener settles. A rejection leaves the job; an empty list ends
\* the run; otherwise the price is compared, the update is published when
\* the change is significant, and the setJson of the new state is issued.
tkFetched(r, fetched, survives) ==
    /\ alive
    /\ tkRun[r].pc = "fetching"
    /\ LET run == tkRun[r]
           solOld == run.solOld
       IN  IF ~fetched.ok
             THEN /\ tkReject(r, run, "fetchFailed", survives)
                  /\ UNCHANGED channel
           ELSE IF Len(fetched.pairs) = 0
             THEN /\ tkRun' = [tkRun EXCEPT ![r] = TickerIdle]
                  /\ tkLast' = TickerEnded(run, "noPrice", TickerKeyNow, TRUE)
                  /\ UNCHANGED <<channel, alive>>
           ELSE LET pair == latestPair(fetched.pairs)
                    newPrice == parseFloat(pair.priceUsd)
                    update == [symbol |-> "SOL", price |-> newPrice,
                               volume24h |-> pair.h24, timestamp |-> now]
                    message == [channel |-> REALTIME_CHANNEL,
                                message |-> JSONstringify(update)]
                    publish == solOld # Null
                               /\ significantChange(newPrice, solOld[1].price)
                IN  /\ channel' = IF publish THEN Append(channel, message)
                                             ELSE channel
                    /\ tkRun' = [tkRun EXCEPT ![r] =
                                    [pc |-> "storing", solOld |-> solOld,
                                     newPrice |-> Some(newPrice),
                                     published |-> IF publish THEN <<update>>
                                                              ELSE << >>,
                                     issued |-> Some(tickerWrite(newPrice))]]
                    /\ UNCHANGED <<tkLast, alive>>
    /\ UNCHANGED <<clockVars, kv, tickerDue>>

\* The setJson of the ticker state completes, or rejects and leaves the job.
tkStored(r, ok, survives) ==
    /\ alive
    /\ tkRun[r].pc = "storing"
    /\ LET run == tkRun[r]
           write == run.issued[1]
           after == setJson(write.key, write.data, write.ttl)
       IN  IF ok
             THEN /\ kv' = after
                  /\ tkRun' = [tkRun EXCEPT ![r] = TickerIdle]
                  /\ tkLast' = TickerEnded(run, "stored", Some(after[write.key]), TRUE)
                  /\ UNCHANGED alive
             ELSE /\ tkReject(r, run, "storeFailed", survives)
                  /\ UNCHANGED kv
    /\ UNCHANGED <<clockVars, tickerDue, channel>>

\* What fetchDexScreener('SOL') may settle with: a rejection, no pair, or two
\* pairs of which the second has the greater volume.
Pair(priceUsd, h24) == [priceUsd |-> priceUsd, h24 |-> h24]
PriceStrings == {"100.00", "100.05", "100.10", "100.105"}
FetchOutcomes ==
    {[ok |-> FALSE, pairs |-> << >>], [ok |-> TRUE, pairs |-> << >>]}
        \cup {[ok |-> TRUE, pairs |-> <<Pair("99.00", 10), Pair(p, 50)>>] :
                 p \in PriceStrings}

(***************************************************************************)
(* Section 6: the broadcast gateway (src/websocket.js). channel holds the  *)
(* messages published on Redis and not yet delivered to the subscriber     *)
(* connection; clients are the connected sockets and rooms[c] the rooms    *)
(* socket c has joined.                                                    *)
(***************************************************************************)
Sockets == 1 .. MaxClients

\* The text of a message is JSON.stringify of a value, or a text that is not
\* JSON. JSON.parse throws on the latter.
canParse(text) == text[1] = "json"

\* The JSON value null: reading a property of it throws a TypeError.
JSNull == [null |-> TRUE]
readSymbolThrows(data) == data = JSNull

\* String.prototype.toUpperCase, for ASCII letters.
Lower == "abcdefghijklmnopqrstuvwxyz"
Upper == "ABCDEFGHIJKLMNOPQRSTUVWXYZ"
upperChar(c) ==
    IF \E k \in 1 .. Len(Lower) : SubSeq(Lower, k, k) = c
      THEN LET k == CHOOSE j \in 1 .. Len(Lower) : SubSeq(Lower, j, j) = c
           IN  SubSeq(Upper, k, k)
      ELSE c
RECURSIVE toUpperCase(_)
toUpperCase(str) ==
    IF Len(str) = 0 THEN ""
    ELSE upperChar(SubSeq(str, 1, 1)) \o toUpperCase(SubSeq(str, 2, Len(str)))

\* What the model keeps of a delivered message: its text, the clients
\* connected when it arrived, the clients 'priceUpdate' was emitted to and
\* the value emitted, the errors the handler logged, and whether the
\* process was running when the handler returned.
NoMessage == [handled |-> FALSE]
Handled(text, emittedTo, data, errors, running) ==
    [handled |-> TRUE, message |-> text, clients |-> clients,
     emittedTo |-> emittedTo, data |-> data, errors |-> errors,
     alive |-> running]

\* The catch of the message handler: the error is logged and the handler
\* returns. Without the catch the error would leave the listener.
onParseError_uncaught(text) == Handled(text, {}, Null, 0, FALSE)
onParseError(text) == Handled(text, {}, Null, 1, TRUE)

\* io.emit reaches every connected socket, whatever rooms it has joined.
emitTargets_joined == {c \in clients : rooms[c] # {}}
emitTargets == clients

\* Some Redis client (the ticker is one) publishes on the channel.
publish(text) ==
    /\ alive
    /\ Len(channel) < MaxChannel
    /\ channel' = Append(channel, [channel |-> REALTIME_CHANNEL, message |-> text])
    /\ UNCHANGED <<clients, rooms, gwPrev, gwLast, alive>>

\* subscriber.on('message'): parse, io.emit to every connected client, log
\* data.symbol; whatever is thrown inside the try is caught and logged.
onMessage ==
    /\ alive
    /\ Len(channel) > 0
    /\ LET msg == Head(channel)
           text == msg.message
       IN  /\ channel' = Tail(channel)
           /\ gwPrev' = gwLast
           /\ gwLast' =
                IF msg.channel # REALTIME_CHANNEL
                  THEN Handled(text, {}, Null, 0, TRUE)
                ELSE IF ~canParse(text)
                  THEN onParseError(text)
                ELSE IF readSymbolThrows(JSONparse(text))
                  THEN Handled(text, emitTargets, Some(JSONparse(text)), 1, TRUE)
                ELSE Handled(text, emitTargets, Some(JSONparse(text)), 0, TRUE)
    /\ alive' = gwLast'.alive
    /\ UNCHANGED <<clients, rooms>>

\* io.on('connection'): a socket connects; it has joined no token room.
connection(c) ==
    /\ alive
    /\ c \notin clients
    /\ clients' = clients \cup {c}
    /\ rooms' = [d \in clients \cup {c} |-> IF d = c THEN {} ELSE rooms[d]]
    /\ UNCHANGED <<channel, gwPrev, gwLast, alive>>

\* socket.on('disconnect'): the socket and its rooms are gone.
disconnect(c) ==
    /\ alive
    /\ c \in clients
    /\ clients' = clients \ {c}
    /\ rooms' = [d \in clients \ {c} |-> rooms[d]]
    /\ UNCHANGED <<channel, gwPrev, gwLast, alive>>

\* socket.on('subscribe'): token.toUpperCase() joins the room. A token that
\* is not a string has no toUpperCase: the TypeError is thrown out of the
\* listener, uncaught; socket.io and Node are not part of this repository,
\* whether the process ends on it is either (survives).
subscribe(c, token, survives) ==
    /\ alive
    /\ c \in clients
    /\ IF token # Null
         THEN /\ rooms' = [rooms EXCEPT ![c] = @ \cup {toUpperCase(token[1])}]
              /\ UNCHANGED alive
         ELSE /\ alive' = survives
              /\ UNCHANGED rooms
    /\ UNCHANGED <<channel, clients, gwPrev, gwLast>>

\* The messages of the model: a price update, the JSON value null, and a
\* text that is not JSON. The tokens of the model: a symbol in either case
\* and a value that is not a string.
PriceUpdate == [symbol |-> "SOL", price |-> 100100, volume24h |-> 50, timestamp |-> 0]
Texts == {JSONstringify(PriceUpdate), JSONstringify(JSNull), <<"text", "not json">>}
Tokens == {Some("sol"), Some("SOL"), Null}


(***************************************************************************)
(* 1. fetchWithRetry                                                       *)
(***************************************************************************)
\* Outcome of one axios.get: 200 is a response with data, 0 is an error that
\* carries no HTTP response (network failure, parse failure), any other
\* number is an error whose error.response.status is that number.
NoResponse == 0
StatusOK == 200
Statuses == {NoResponse, StatusOK, 404, 429, 499, 500, 503}

\* Math.random() * 500 is a real in [0, 500); the model draws from its ends
\* and its middle.
Jitters == {0, 250, 499}

RetryArgs == 0 .. MaxRetries

isTransientError_any4xx(status) ==
    status # NoResponse /\ status >= 400

isTransientError(status) ==
    status # NoResponse /\ (status = 429 \/ status >= 500)

delay_base100(idx, jitter) == (2 ^ idx) * 100 + jitter

delay(idx, jitter) == (2 ^ idx) * 1000 + jitter

lastAttempt_offByOne(idx, n) == idx = n

lastAttempt(idx, n) == idx = n - 1

NoResult == [kind |-> "none"]

frIdle ==
    /\ frPc = "idle"
    /\ retries = 0
    /\ i = 0
    /\ requests = <<>>
    /\ delays = <<>>
    /\ frResult = NoResult

\* fetchWithRetry(url, config, retries): entry and the first loop test.
frCall(n) ==
    /\ frPc = "idle"
    /\ retries' = n
    /\ i' = 0
    /\ requests' = <<>>
    /\ delays' = <<>>
    /\ IF 0 < n
         THEN frPc' = "request" /\ frResult' = NoResult
         ELSE /\ frPc' = "returned"
              /\ frResult' = [kind |-> "returned", value |-> "undefined"]

\* One pass of the loop body: the request, and on failure the catch block up
\* to the await of the backoff timer.
frAttempt(status, jitter) ==
    /\ frPc = "request"
    /\ requests' = Append(requests, status)
    /\ UNCHANGED <<retries, i>>
    /\ IF status = StatusOK
         THEN /\ frPc' = "returned"
              /\ frResult' = [kind |-> "returned", value |-> "data"]
              /\ UNCHANGED delays
         ELSE IF lastAttempt(i, retries) \/ ~isTransientError(status)
                THEN /\ frPc' = "thrown"
                     /\ frResult' = [kind |-> "thrown", status |-> status,
                                     attempt |-> Len(requests) + 1]
                     /\ UNCHANGED delays
                ELSE /\ frPc' = "sleep"
                     /\ delays' = Append(delays, delay(i, jitter))
                     /\ UNCHANGED frResult

\* The timer fires: i++ and the loop test.
frWake ==
    /\ frPc = "sleep"
    /\ i' = i + 1
    /\ UNCHANGED <<retries, requests, delays>>
    /\ IF i + 1 < retries
         THEN frPc' = "request" /\ UNCHANGED frResult
         ELSE /\ frPc' = "returned"
              /\ frResult' = [kind |-> "returned", value |-> "undefined"]

\* The caller has consumed the result; the next call may start.
frDone ==
    /\ frPc \in {"returned", "thrown"}
    /\ frPc' = "idle"
    /\ retries' = 0
    /\ i' = 0
    /\ requests' = <<>>
    /\ delays' = <<>>
    /\ frResult' = NoResult


(***************************************************************************)
(* Specifications                                                          *)
(***************************************************************************)
\* The process right after server.js has run: the store is empty and
\* startScheduler has started the seeding run, which awaits its fetches.
RestAtBoot(h) ==
    /\ now = 0
    /\ horizon = h
    /\ phase \in (IF h = 0 THEN {0} ELSE Phases)
    /\ kv = << >>
    /\ aggRun = [r \in AggRuns |-> IF r = 1 THEN AggFetching ELSE AggIdle]
    /\ aggDue = FALSE
    /\ aggErrors = FALSE
    /\ aggLast = NoAggRun
    /\ reqs = [r \in Reqs |-> ReqIdle]
    /\ callSeq = 0
    /\ viewWriter = << >>
    /\ ref = NoCall
    /\ last = NoCall
    /\ tkRun = [r \in TickerRuns |-> TickerIdle]
    /\ tickerDue = FALSE
    /\ tkLast = NoTickerRun
    /\ channel = << >>
    /\ clients = {}
    /\ rooms = << >>
    /\ gwPrev = NoMessage
    /\ gwLast = NoMessage
    /\ alive = TRUE

InitRetry == frIdle /\ RestAtBoot(0)

NextRetry ==
    \/ \E n \in RetryArgs : frCall(n) /\ UNCHANGED retryFrame
    \/ \E s \in Statuses, j \in Jitters :
           frAttempt(s, j) /\ UNCHANGED retryFrame
    \/ frWake /\ UNCHANGED retryFrame
    \/ frDone /\ UNCHANGED retryFrame

SpecRetry == InitRetry /\ [][NextRetry]_vars

InitAgg == frIdle /\ RestAtBoot(AggHorizon)

NextAgg ==
    \/ Tick(Quantum) /\ aggCronTick(Quantum) /\ UNCHANGED aggFrame
    \/ \E r \in AggRuns : aggCron(r) /\ UNCHANGED aggFrame
    \/ \E r \in AggRuns, p \in SomePatterns :
           aggFetched(r, p) /\ UNCHANGED aggFrame
    \/ \E r \in AggRuns, ok \in BOOLEAN : aggStored(r, ok) /\ UNCHANGED aggFrame

SpecAgg == InitAgg /\ [][NextAgg]_vars

InitQuery == frIdle /\ RestAtBoot(QueryHorizon)

\* The aggregation job runs in its first slot here: the seeding run and the
\* cron runs after it, with every fetch fulfilled.
NextQuery ==
    \/ \E r \in Reqs, q \in Queries, ok \in BOOLEAN :
           gtCall(r, q, ok) /\ UNCHANGED queryFrame
    \/ \E r \in Reqs, ok \in BOOLEAN : gtCatalog(r, ok) /\ UNCHANGED queryFrame
    \/ \E r \in Reqs, ok \in BOOLEAN : gtStored(r, ok) /\ UNCHANGED queryFrame
    \/ observeFirst /\ UNCHANGED queryFrame
    \/ /\ \/ Tick(Quantum) /\ aggCronTick(Quantum)
          \/ aggCron(1)
          \/ aggFetched(1, AllFulfilled)
          \/ aggStored(1, TRUE)
       /\ last' = NoCall
       /\ UNCHANGED <<reqs, callSeq, viewWriter, ref, queryFrame>>

SpecQuery == InitQuery /\ [][NextQuery]_vars

InitTicker == frIdle /\ RestAtBoot(TickerHorizon)

NextTicker ==
    \/ /\ Tick(TickerQuantum) /\ tickerCronTick(TickerQuantum)
       /\ UNCHANGED <<channel, alive, tickerFrame>>
    \/ \E r \in TickerRuns, okRead, survives \in BOOLEAN :
           tkStart(r, okRead, survives) /\ UNCHANGED tickerFrame
    \/ \E r \in TickerRuns, f \in FetchOutcomes, survives \in BOOLEAN :
           tkFetched(r, f, survives) /\ UNCHANGED tickerFrame
    \/ \E r \in TickerRuns, ok, survives \in BOOLEAN :
           tkStored(r, ok, survives) /\ UNCHANGED tickerFrame

SpecTicker == InitTicker /\ [][NextTicker]_vars

\* One aggregation cycle, the seeding run, under every pattern of fulfilled
\* and rejected fetches.
InitCycle == frIdle /\ RestAtBoot(0)

NextCycle ==
    \/ \E p \in FetchPatterns : aggFetched(1, p) /\ UNCHANGED aggFrame
    \/ \E ok \in BOOLEAN : aggStored(1, ok) /\ UNCHANGED aggFrame

SpecCycle == InitCycle /\ [][NextCycle]_vars

\* Requests whose parameters contain the separator of the cache key, over a
\* catalog the seeding run stores.
InitShapes == frIdle /\ RestAtBoot(0)

ShapeQueries ==
    {[limit |-> Some("1"), sortBy |-> Some(sf[1]), filterBy |-> Some(sf[2]),
      nextCursor |-> Null] :
        sf \in {<<"priceChange1h", "24h">>, <<"priceChange1h", "24h_24h">>,
                <<"priceChange1h_24h", "24h">>}}

NextShapes ==
    \/ \E r \in Reqs, q \in ShapeQueries, ok \in BOOLEAN :
           gtCall(r, q, ok) /\ UNCHANGED queryFrame
    \/ \E r \in Reqs, ok \in BOOLEAN : gtCatalog(r, ok) /\ UNCHANGED queryFrame
    \/ \E r \in Reqs, ok \in BOOLEAN : gtStored(r, ok) /\ UNCHANGED queryFrame
    \/ observeFirst /\ UNCHANGED queryFrame
    \/ /\ \/ aggFetched(1, AllFulfilled)
          \/ aggStored(1, TRUE)
       /\ last' = NoCall
       /\ UNCHANGED <<reqs, callSeq, viewWriter, ref, queryFrame>>

SpecShapes == InitShapes /\ [][NextShapes]_vars

\* One request per behaviour, over every page, limit and sort field, on the
\* catalog the seeding run stores: the request is always a view-cache miss.
InitPage == frIdle /\ RestAtBoot(0)

PageQueries ==
    [limit : {Null, Some("0"), Some("1"), Some("2"), Some("4")},
     sortBy : {Null, Some("price"), Some("priceChange1h"), Some("id"),
               Some("marketCap")},
     filterBy : {Null},
     nextCursor : {Null, Some(""), Some("0"), Some("1"), Some("2"), Some("3"),
                   Some("4")}]

NextPage ==
    \/ \E r \in Reqs, q \in PageQueries :
           callSeq = 0 /\ gtCall(r, q, TRUE) /\ UNCHANGED queryFrame
    \/ \E r \in Reqs : gtCatalog(r, TRUE) /\ UNCHANGED queryFrame
    \/ \E r \in Reqs : gtStored(r, TRUE) /\ UNCHANGED queryFrame
    \/ /\ \/ aggFetched(1, AllFulfilled)
          \/ aggStored(1, TRUE)
       /\ last' = NoCall
       /\ UNCHANGED <<reqs, callSeq, viewWriter, ref, queryFrame>>

SpecPage == InitPage /\ [][NextPage]_vars

\* Every writer of the store together: the aggregation runs, one request at
\* a time and the ticker, over a store that answers.
InitStore == frIdle /\ RestAtBoot(StoreHorizon)

StoreFetch == [ok |-> TRUE, pairs |-> <<Pair("100.10", 50)>>]

NextStore ==
    \/ /\ Tick(Quantum) /\ aggCronTick(Quantum) /\ tickerCronTick(Quantum)
       /\ last' = NoCall
       /\ UNCHANGED <<retryVars, reqs, callSeq, viewWriter, ref, channel,
                      gwVars, alive>>
    \/ /\ \E r \in AggRuns : \/ aggCron(r)
                              \/ aggFetched(r, AllFulfilled)
                              \/ aggStored(r, TRUE)
       /\ UNCHANGED aggFrame
    \/ /\ \E r \in Reqs : \/ \E q \in Queries : gtCall(r, q, TRUE)
                           \/ gtCatalog(r, TRUE)
                           \/ gtStored(r, TRUE)
       /\ UNCHANGED queryFrame
    \/ /\ \/ tkStart(1, TRUE, TRUE)
          \/ tkFetched(1, StoreFetch, TRUE)
          \/ tkStored(1, TRUE, TRUE)
       /\ UNCHANGED tickerFrame

SpecStore == InitStore /\ [][NextStore]_vars

\* Ticker runs that can overlap, over a store and an upstream that answer.
InitRace == frIdle /\ RestAtBoot(TickerHorizon)

RaceFetches ==
    {[ok |-> TRUE, pairs |-> <<Pair(p, 50)>>] :
        p \in {"100.00", "100.05", "100.10"}}

NextRace ==
    \/ /\ Tick(TickerQuantum) /\ tickerCronTick(TickerQuantum)
       /\ UNCHANGED <<channel, alive, tickerFrame>>
    \/ \E r \in TickerRuns : tkStart(r, TRUE, TRUE) /\ UNCHANGED tickerFrame
    \/ \E r \in TickerRuns, f \in RaceFetches :
           tkFetched(r, f, TRUE) /\ UNCHANGED tickerFrame
    \/ \E r \in TickerRuns : tkStored(r, TRUE, TRUE) /\ UNCHANGED tickerFrame

SpecRace == InitRace /\ [][NextRace]_vars

InitGateway == frIdle /\ RestAtBoot(0)

NextGateway ==
    \/ \E text \in Texts : publish(text) /\ UNCHANGED gwFrame
    \/ onMessage /\ UNCHANGED gwFrame
    \/ \E c \in Sockets : connection(c) /\ UNCHANGED gwFrame
    \/ \E c \in Sockets : disconnect(c) /\ UNCHANGED gwFrame
    \/ \E c \in Sockets, token \in Tokens, survives \in BOOLEAN :
           subscribe(c, token, survives) /\ UNCHANGED gwFrame

SpecGateway == InitGateway /\ [][NextGateway]_vars

\* The ticker as the publisher and the gateway as the subscriber: the runs
\* publish without waiting for the gateway to deliver.
InitFanout == frIdle /\ RestAtBoot(TickerHorizon)

FanoutFetches ==
    {[ok |-> TRUE, pairs |-> <<Pair(p, 50)>>] : p \in {"100.00", "100.10"}}

NextFanout ==
    \/ /\ Tick(TickerQuantum) /\ tickerCronTick(TickerQuantum)
       /\ UNCHANGED <<channel, alive, tickerFrame>>
    \/ /\ \/ tkStart(1, TRUE, TRUE)
          \/ \E f \in FanoutFetches : tkFetched(1, f, TRUE)
          \/ tkStored(1, TRUE, TRUE)
       /\ UNCHANGED tickerFrame
    \/ /\ \/ onMessage
          \/ \E c \in Sockets : connection(c)
          \/ \E c \in Sockets : disconnect(c)
          \/ \E c \in Sockets : subscribe(c, Some("sol"), TRUE)
       /\ UNCHANGED gwFrame

SpecFanout == InitFanout /\ [][NextFanout]_vars

(***************************************************************************)
(* Claims about fetchWithRetry (checked under SpecRetry).                  *)
(***************************************************************************)
\* A failure that is not transient: no HTTP response, or a status that is
\* neither 429 nor at least 500.
NonTransientFailure(status) ==
    /\ status # StatusOK
    /\ (status = NoResponse \/ (status # 429 /\ status < 500))

TransientFailure(status) ==
    status \in {429} \cup {s \in Statuses : s >= 500}

\* C7: a non-transient failure, on the first or on any later attempt, is
\* rethrown at once: it is the last request issued, the call has failed with
\* that very error, and no backoff delay was taken for it (k - 1 delays were
\* slept before the k-th request, none after it).
C7_NonTransientShortCircuits ==
    \A k \in 1 .. Len(requests) :
        NonTransientFailure(requests[k]) =>
            /\ k = Len(requests)
            /\ frPc = "thrown"
            /\ frResult = [kind |-> "thrown", status |-> requests[k],
                           attempt |-> k]
            /\ Len(delays) = k - 1

C7_Witness ==
    /\ frPc = "thrown"
    /\ retries = 3
    /\ requests = <<404>>
    /\ delays = <<>>

\* C8: with retries = N >= 1 and every attempt failing transiently, the
\* finished call has issued exactly N requests, fails with the error of the
\* N-th, and slept N - 1 delays, each 2^i * 1000 + jitter with jitter in
\* [0, 500), which never decrease with the attempt index.
C8_TransientExhaustsRetries ==
    /\ \A a, b \in 1 .. Len(delays) : a <= b => delays[a] <= delays[b]
    /\ \A k \in 1 .. Len(delays) :
           delays[k] - (2 ^ (k - 1)) * 1000 \in 0 .. 499
    /\ ( /\ frPc \in {"returned", "thrown"}
         /\ retries >= 1
         /\ \A k \in 1 .. Len(requests) : TransientFailure(requests[k]) )
       => /\ Len(requests) = retries
          /\ frResult = [kind |-> "thrown", status |-> requests[retries],
                         attempt |-> retries]
          /\ Len(delays) = retries - 1

C8_Witness ==
    /\ frPc = "thrown"
    /\ retries = 3
    /\ Len(requests) = 3
    /\ \A k \in 1 .. 3 : TransientFailure(requests[k])
    /\ Len(delays) = 2

(***************************************************************************)
(* Claims about runFullAggregation (checked under SpecAgg).                *)
(***************************************************************************)
\* C10: once a cycle has stored the catalog, the catalog key stays readable:
\* no step removes it (a later cycle may only overwrite it), so it is never
\* expired away between two cycles.
C10_CatalogStaysReadable ==
    [][CatalogReadable => CatalogReadable']_vars

(***************************************************************************)
(* Claims about getTokenList (checked under SpecQuery). ref is a finished  *)
(* request and last a request that has just finished; last.afterRef says   *)
(* that last arrived after ref was answered.                               *)
(***************************************************************************)
SameShape(q1, q2) ==
    /\ queryLimit(q1) = queryLimit(q2)
    /\ querySortBy(q1) = querySortBy(q2)
    /\ queryFilterBy(q1) = queryFilterBy(q2)

\* The catalog every aggregation cycle stores, and its records in descending
\* order of a numeric field (the fields of the catalog have no ties).
Catalog == mergeAndCleanTokenData(<< >>)
SortedCatalog(field) ==
    CHOOSE s \in [1 .. Len(Catalog) -> {Catalog[k] : k \in 1 .. Len(Catalog)}] :
        /\ \A a, b \in 1 .. Len(Catalog) : a < b => s[a][field] > s[b][field]

Min(a, b) == IF a <= b THEN a ELSE b

\* C1: a request with nextCursor=0 and then one of the same (limit, sortBy,
\* filterBy) with the nextCursor the first returned give two disjoint pages
\* which together are the first min(2L, M) records of the sorted catalog.
C1_TwoPagesArePrefix ==
    ( /\ ref # NoCall /\ last # NoCall /\ last.afterRef
      /\ ref.status = 200 /\ last.status = 200
      /\ ref.query.nextCursor = Some("0")
      /\ SameShape(ref.query, last.query)
      /\ ref.body[1].pagination.nextCursor # Null
      /\ last.query.nextCursor = ref.body[1].pagination.nextCursor )
    => LET page1 == ref.body[1].data
           page2 == last.body[1].data
           L == parseInt(queryLimit(ref.query))
       IN  /\ \A a \in 1 .. Len(page1), b \in 1 .. Len(page2) : page1[a] # page2[b]
           /\ page1 \o page2 =
                  SubSeq(SortedCatalog(querySortBy(ref.query)), 1,
                         Min(2 * L, Len(Catalog)))

\* C2: when a request was answered cached=false (it stored its view at
\* ref.storedAt) and a later request of the same (limit, sortBy, filterBy)
\* reads the view key less than 30 s after that, the later one is answered
\* cached=true, and with the data of the first when the stored view it is
\* served is the one the first wrote. The catalog key plays no part. (A
\* request that Redis fails is answered 500 and is not a case of the claim.)
C2_SecondCallIsCached ==
    ( /\ ref # NoCall /\ last # NoCall /\ last.afterRef
      /\ ref.status = 200 /\ ~ref.body[1].cached
      /\ SameShape(ref.query, last.query)
      /\ last.readAt < ref.storedAt[1] + 30
      /\ last.status # 500 )
    => /\ last.status = 200
       /\ last.body[1].cached
       /\ last.servedFrom = ref.no => last.body[1].data = ref.body[1].data

\* The second request hits the view the first stored although it asks for
\* another page and the catalog has expired in between.
C2_Witness ==
    /\ ref # NoCall /\ last # NoCall /\ last.afterRef
    /\ ref.status = 200 /\ ~ref.body[1].cached
    /\ SameShape(ref.query, last.query)
    /\ last.query.nextCursor # ref.query.nextCursor
    /\ last.status = 200 /\ last.body[1].cached
    /\ last.servedFrom = ref.no
    /\ last.body[1].data = ref.body[1].data
    /\ ~CatalogReadable

\* C3: a request during which the catalog key is absent (or holds an empty
\* list) is answered 503, never 200. (A request that Redis fails is answered
\* 500 and is not a case of the claim.)
C3_NoCatalogGives503 ==
    (last # NoCall /\ ~last.catalogSeen /\ last.status # 500)
    => last.status = 503

(***************************************************************************)
(* Claims about runRealtimeTicker (checked under SpecTicker).              *)
(***************************************************************************)
\* The run in slot r has just had its fetch settle.
FetchSettles(r) == tkRun[r].pc = "fetching" /\ tkRun'[r].pc # "fetching"

Significant(new, old) ==
    (IF new >= old THEN new - old ELSE old - new) * 10000 > 5 * old

\* C4: the step in which the fetch of a run settles appends one message
\* carrying the new price to the broadcast channel when the run read a prior
\* TickerState and |new - old| / old > 0.0005, and leaves the channel alone
\* otherwise; no other step of a ticker run touches the channel.
C4_PublishesIffSignificant ==
    [][ IF \E r \in TickerRuns : FetchSettles(r)
          THEN \A r \in TickerRuns : FetchSettles(r) =>
                 LET old == tkRun[r].solOld
                     new == tkRun'[r].newPrice
                 IN  IF new # Null /\ old # Null /\ Significant(new[1], old[1].price)
                       THEN /\ Len(channel') = Len(channel) + 1
                            /\ SubSeq(channel', 1, Len(channel)) = channel
                            /\ channel'[Len(channel')].channel = "token_price_updates"
                            /\ JSONparse(channel'[Len(channel')].message).price = new[1]
                       ELSE channel' = channel
          ELSE channel' = channel ]_vars

\* 100.00 -> 100.10 was published once with price 100.10, and the run that
\* then saw 100.105 published nothing and stored 100.105.
C4_Witness ==
    /\ tkLast.outcome = "stored"
    /\ tkLast.solOld = Some([price |-> 100100])
    /\ tkLast.newPrice = Some(100105)
    /\ tkLast.published = << >>
    /\ Len(channel) = 1
    /\ JSONparse(channel[1].message).price = 100100
    /\ getJson("ticker:SOL") = Some([price |-> 100105])

\* C5: a run that obtained a price has issued the write of {price} under
\* ticker:SOL with a TTL of 60 s, and when the write completed the key holds
\* that price and expires 60 s later, whatever the run read or published.
\* (A run whose write Redis fails ends without the key written.)
C5_StoresNewPrice ==
    /\ \A r \in TickerRuns :
          tkRun[r].newPrice # Null =>
              /\ tkRun[r].pc = "storing"
              /\ tkRun[r].issued =
                     Some([key |-> "ticker:SOL",
                           data |-> [price |-> tkRun[r].newPrice[1]],
                           ttl |-> Some(60)])
    /\ (tkLast # NoTickerRun /\ tkLast.newPrice # Null) =>
          /\ tkLast.outcome \in {"stored", "storeFailed"}
          /\ tkLast.outcome = "stored" =>
                /\ "ticker:SOL" \in DOMAIN kv
                /\ kv["ticker:SOL"] =
                       [val |-> <<"json", [price |-> tkLast.newPrice[1]]>>,
                        exp |-> tkLast.at + 60]

\* The first observation: nothing read, nothing published, the price stored.
C5_Witness ==
    /\ tkLast.outcome = "stored"
    /\ tkLast.solOld = Null
    /\ tkLast.published = << >>
    /\ channel = << >>
    /\ getJson("ticker:SOL") = Some([price |-> tkLast.newPrice[1]])
    /\ kv["ticker:SOL"].exp = tkLast.at + 60

\* C6: a run whose fetch or TickerState read failed has caught the failure
\* itself (the promise of the job is fulfilled), published nothing, left
\* TickerState as it was, and the process is still running.
C6_TickerFailureContained ==
    (tkLast # NoTickerRun /\ tkLast.outcome \in {"readFailed", "fetchFailed"})
    => /\ tkLast.settled = "fulfilled"
       /\ tkLast.published = << >>
       /\ tkLast.keyAfter = tkLast.keyBefore
       /\ tkLast.alive

(***************************************************************************)
(* Claims about the broadcast gateway (checked under SpecGateway).         *)
(***************************************************************************)
NotJson(text) == text[1] # "json"

\* C9: a message whose payload is not JSON is emitted to no client, logs one
\* error and leaves the process running; the well-formed message delivered
\* next is emitted to every client connected when it arrives.
C9_MalformedIsDropped ==
    /\ (gwLast.handled /\ NotJson(gwLast.message)) =>
          /\ gwLast.emittedTo = {}
          /\ gwLast.data = Null
          /\ gwLast.errors = 1
          /\ gwLast.alive
    /\ (gwPrev.handled /\ NotJson(gwPrev.message)
          /\ gwLast.handled /\ ~NotJson(gwLast.message)) =>
          /\ gwLast.emittedTo = gwLast.clients
          /\ gwLast.data = Some(gwLast.message[2])
          /\ gwLast.alive

\* A malformed message was dropped with both clients connected, and the
\* price update after it reached both.
C9_Witness ==
    /\ gwPrev.handled /\ NotJson(gwPrev.message)
    /\ gwPrev.clients = {1, 2} /\ gwPrev.emittedTo = {} /\ gwPrev.errors = 1
    /\ gwLast.handled /\ gwLast.message = <<"json", PriceUpdate>>
    /\ gwLast.emittedTo = {1, 2} /\ gwLast.errors = 0
    /\ alive

(***************************************************************************)
(* Claims about the writers of the store (checked under SpecStore).        *)
(***************************************************************************)
\* A run of the aggregation job completes its redis.set in this step.
AggStores(r) == aggRun[r].pc = "storing" /\ aggRun'[r].pc = "idle"

\* C11: the catalog key is absent or holds the whole list one merge call
\* returned; no view key and no ticker key is the catalog key; and a step
\* that changes the value under the catalog key is the store of one
\* aggregation run, which writes the whole list that run merged -- also
\* while another run is in flight.
C11_CatalogIsWholeAndSingleWriter ==
    /\ [](/\ CatalogKeyNow # Null =>
                \E raw \in {<< >>} \cup {aggRun[r].raw : r \in AggRuns} :
                    CatalogKeyNow[1].val = <<"json", mergeAndCleanTokenData(raw)>>
          /\ \A q \in Queries : cacheKey(q) # "global_token_list"
          /\ \A r \in TickerRuns :
                tkRun[r].issued # Null => tkRun[r].issued[1].key # "global_token_list")
    /\ [][ (CatalogKeyNow' # Null /\ CatalogKeyNow' # CatalogKeyNow) =>
               \E r \in AggRuns :
                   /\ AggStores(r)
                   /\ CatalogKeyNow'[1].val = <<"json", aggRun[r].list>> ]_vars

\* A run stored the catalog while the other run, which overlapped it, is
\* still about to store; a view and the ticker state are in the store too.
C11_Witness ==
    /\ aggLast.outcome = "stored" /\ aggLast.at = 30
    /\ \E r \in AggRuns : aggRun[r].pc = "storing"
    /\ CatalogReadable
    /\ \E q \in Queries : cacheKey(q) \in DOMAIN kv
    /\ "ticker:SOL" \in DOMAIN kv

(***************************************************************************)
(* Claims about one aggregation cycle (checked under SpecCycle).           *)
(***************************************************************************)
\* The raw results a cycle must hand to the merge when its fetches settled
\* as p: one object per symbol with a fulfilled source, in the order of the
\* tracked list, a rejected source being null in it.
RawMatches(raw, p) ==
    /\ {raw[k].symbol : k \in 1 .. Len(raw)} = {s \in Symbols : p[s].dex \/ p[s].jup}
    /\ \A k \in 1 .. Len(raw) :
          /\ (raw[k].dexScreener = Null) <=> ~p[raw[k].symbol].dex
          /\ (raw[k].jupiterPrice = Null) <=> ~p[raw[k].symbol].jup
    /\ \A k, m \in 1 .. Len(raw) : k # m => raw[k].symbol # raw[m].symbol

\* C12: however the fetches of a cycle settle, the cycle goes on to merge
\* and to store: a rejected source is null in the raw result of its symbol,
\* the other source of the symbol and the other symbols are kept as they
\* settled, the merge is called on these raw results, and the only way the
\* cycle fails is the store itself.
C12_FetchFailuresAreContained ==
    /\ \A r \in AggRuns :
          aggRun[r].pc \in {"idle", "fetching"} \/
          ( /\ aggRun[r].pc = "storing"
            /\ RawMatches(aggRun[r].raw, aggRun[r].settled[1])
            /\ aggRun[r].list = mergeAndCleanTokenData(aggRun[r].raw) )
    /\ aggLast # NoAggRun =>
          /\ aggLast.settled # Null
          /\ RawMatches(aggLast.raw, aggLast.settled[1])
          /\ aggLast.outcome = "stored" =>
                aggLast.keyAfter[1].val = <<"json", aggLast.list>>

\* A cycle stored its catalog although one source of SOL and both sources
\* of WEN failed.
C12_Witness ==
    /\ aggLast.outcome = "stored"
    /\ aggLast.settled[1]["SOL"] = [dex |-> FALSE, jup |-> TRUE]
    /\ aggLast.settled[1]["WEN"] = [dex |-> FALSE, jup |-> FALSE]
    /\ aggLast.settled[1]["JUP"] = [dex |-> TRUE, jup |-> TRUE]
    /\ Len(aggLast.raw) = 3
    /\ aggLast.raw[1] = [symbol |-> "SOL", dexScreener |-> Null,
                         jupiterPrice |-> Some("entries")]
    /\ CatalogReadable

\* C13: the catalog a cycle stores has records only for symbols of which at
\* least one source succeeded in that cycle.
C13_FailedSymbolsAreDropped ==
    (aggLast # NoAggRun /\ aggLast.outcome = "stored") =>
        \A k \in 1 .. Len(aggLast.list) :
            LET s == aggLast.list[k].id
            IN  s \in Symbols /\ (aggLast.settled[1][s].dex \/ aggLast.settled[1][s].jup)

(***************************************************************************)
(* Claims about failing aggregation cycles (checked under SpecAgg).        *)
(***************************************************************************)
\* A run ends in its catch block in this step.
AggFails == aggLast' # aggLast /\ aggLast'.outcome = "failed"

\* C14 as stated: after a cycle that failed, the catalog key is exactly what
\* it was when the cycle started.
C14_KeyAsBeforeCycle ==
    (aggLast # NoAggRun /\ aggLast.outcome = "failed")
    => /\ aggLast.caught
       /\ aggLast.keyAfter = aggLast.keyAtStart

\* C14, amended: the step in which a cycle fails logs the error, writes
\* nothing to the store, puts the job back to idle, where the next cron tick
\* can start it, and leaves the process running. (What the key held when the
\* cycle started may have been replaced by an overlapping run meanwhile.)
C14_FailedCycleWritesNothing ==
    [][ AggFails =>
          /\ kv' = kv
          /\ aggErrors' /\ aggLast'.caught
          /\ aggLast'.keyAfter = CatalogKeyNow
          /\ \E r \in AggRuns :
                /\ aggRun[r].pc = "storing"
                /\ aggRun' = [aggRun EXCEPT ![r] = AggIdle]
                /\ aggRun'[r].pc = "idle"
          /\ alive /\ alive' ]_vars

\* A cron run that started with the catalog present failed to store, and
\* the catalog is still the one it found.
C14_Witness ==
    /\ aggLast.outcome = "failed" /\ aggLast.caught /\ aggErrors
    /\ aggLast.keyAtStart # Null
    /\ aggLast.keyAfter = aggLast.keyAtStart
    /\ CatalogKeyNow = aggLast.keyAtStart
    /\ \A r \in AggRuns : aggRun[r].pc = "idle"
    /\ alive

(***************************************************************************)
(* Claims about the broadcast path (checked under SpecFanout).             *)
(***************************************************************************)
\* The subscriber connection hands a message to the handler in this step.
Delivery == Len(channel') < Len(channel)

\* C15: the handler takes the messages in the order they were published,
\* one at a time, and emits a well-formed one, as parsed, once to exactly
\* the clients connected at that moment, whatever rooms they have joined.
C15_EveryEventToEveryClient ==
    [][ Delivery =>
          LET text == Head(channel).message
          IN  /\ channel' = Tail(channel)
              /\ gwPrev' = gwLast
              /\ gwLast'.handled /\ gwLast'.message = text
              /\ text[1] = "json" =>
                    /\ gwLast'.emittedTo = clients
                    /\ gwLast'.data = Some(text[2])
              /\ clients' = clients /\ alive' ]_vars

\* Two price updates published by the ticker were delivered in their order
\* to both clients, of which only the first has joined a room.
C15_Witness ==
    /\ gwPrev.handled /\ gwLast.handled
    /\ gwPrev.data # Null /\ gwPrev.data[1].price = 100100
    /\ gwPrev.data[1].timestamp = 10
    /\ gwLast.data # Null /\ gwLast.data[1].price = 100000
    /\ gwLast.data[1].timestamp = 15
    /\ gwPrev.emittedTo = {1, 2} /\ gwLast.emittedTo = {1, 2}
    /\ rooms = [c \in {1, 2} |-> IF c = 1 THEN {"SOL"} ELSE {}]
    /\ channel = << >>

(***************************************************************************)
(* Claims about the cache key (checked under SpecShapes).                  *)
(***************************************************************************)
\* C16: two requests whose (limit, sortBy, filterBy) differ use different
\* cache entries: their keys differ, and the later one is not served the
\* view the earlier one stored.
C16_ShapesHaveOwnEntries ==
    ( /\ ref # NoCall /\ last # NoCall /\ last.afterRef
      /\ ref.status = 200 /\ last.status = 200
      /\ ~SameShape(ref.query, last.query) )
    => /\ cacheKey(ref.query) # cacheKey(last.query)
       /\ last.servedFrom # ref.no

(***************************************************************************)
(* Claims about overlapping ticker runs (checked under SpecRace).          *)
(***************************************************************************)
\* C17: whatever way ticker runs overlap, an event is published only for a
\* price that differs significantly from the TickerState stored at that
\* moment (no second event for a move already published, no event for a
\* move the stored state does not show), and the TickerState is always a
\* price some run fetched.
C17_RaceOnlyLosesAnUpdate ==
    /\ [][ \A r \in TickerRuns :
             (FetchSettles(r) /\ Len(channel') > Len(channel)) =>
                 LET current == getJson("ticker:SOL")
                 IN  /\ current # Null
                     /\ Significant(tkRun'[r].newPrice[1], current[1].price) ]_vars
    /\ [](getJson("ticker:SOL") # Null =>
            getJson("ticker:SOL")[1].price \in {100000, 100050, 100100})

(***************************************************************************)
(* Claims about pagination and sorting (checked under SpecPage).           *)
(***************************************************************************)
\* The value a record is ordered by: its numeric field, 0 for a field it
\* does not have or that is not a number.
OrderValue(record, field) ==
    IF field \in DOMAIN record \ {"id"} THEN record[field] ELSE 0

\* catalog in descending order of field, records of equal value in their
\* catalog order.
DescendingBy(catalog, field) ==
    LET M == Len(catalog)
        Perms == {f \in [1 .. M -> 1 .. M] :
                     \A a, b \in 1 .. M : a # b => f[a] # f[b]}
        Ordered(f) ==
            \A a, b \in 1 .. M :
                a < b =>
                    \/ OrderValue(catalog[f[a]], field)
                           > OrderValue(catalog[f[b]], field)
                    \/ /\ OrderValue(catalog[f[a]], field)
                              = OrderValue(catalog[f[b]], field)
                       /\ f[a] < f[b]
        by == CHOOSE f \in Perms : Ordered(f)
    IN  [k \in 1 .. M |-> catalog[by[k]]]

\* list[from : to], offsets counted from 0.
Window(list, from, to) ==
    LET end == IF to < Len(list) THEN to ELSE Len(list)
    IN  IF from >= end THEN << >> ELSE SubSeq(list, from + 1, end)

PageCursors == 0 .. 4
PageLimits == {0, 1, 2, 4, 20}
CursorOf(c) ==
    IF c = 0 THEN {Null, Some(""), Some(toString(0))} ELSE {Some(toString(c))}
LimitOf(L) == IF L = 20 THEN {Null} ELSE {Some(toString(L))}
SortFieldOf(query) == IF query.sortBy = Null THEN "volume24h" ELSE query.sortBy[1]
IsMiss(call) == call # NoCall /\ call.status = 200 /\ call.storedAt # Null

\* C18: a request answered from the catalog (a view-cache miss) with cursor
\* c and limit L gets data = sortedCatalog[c : c+L], the catalog sorted
\* descending by the sortBy field with missing or non-numeric values as 0,
\* and nextCursor = string(c+L) if c+L < M, else null.
C18_PageOfSortedCatalog ==
    \A c \in PageCursors, L \in PageLimits :
        (/\ IsMiss(last)
         /\ last.query.nextCursor \in CursorOf(c)
         /\ last.query.limit \in LimitOf(L)
         /\ getJson("global_token_list") # Null) =>
            LET catalog == getJson("global_token_list")[1]
                sorted == DescendingBy(catalog, SortFieldOf(last.query))
                body == last.body[1]
            IN  /\ body.data = Window(sorted, c, c + L)
                /\ body.pagination.nextCursor =
                       IF c + L < Len(catalog) THEN Some(toString(c + L))
                       ELSE Null

\* The second page of one record by priceChange1h: SOL, between BONK and JUP.
C18_Witness ==
    /\ IsMiss(last)
    /\ last.query = [limit |-> Some("1"), sortBy |-> Some("priceChange1h"),
                     filterBy |-> Null, nextCursor |-> Some("1")]
    /\ Len(last.body[1].data) = 1
    /\ last.body[1].data[1].id = "SOL"
    /\ last.body[1].pagination.nextCursor = Some("2")

(***************************************************************************)
(* Claims about client messages (checked under SpecGateway).               *)
(***************************************************************************)
\* C19: whatever payload a client sends with 'subscribe', a string in any
\* letter case or a value that is not a string, the handler joins the
\* upper-cased topic or rejects the message, and the process keeps running.
C19_SubscribeKeepsGatewayUp ==
    [][ \A c \in Sockets, token \in Tokens :
          (\E survives \in BOOLEAN : subscribe(c, token, survives)) =>
              /\ alive'
              /\ token # Null => toUpperCase(token[1]) \in rooms'[c] ]_vars

(***************************************************************************)
(* Claims about the result of fetchWithRetry (checked under SpecRetry).    *)
(***************************************************************************)
\* C20: for every retry count, retries <= 0 included, a call that resolves
\* returns the data of a request that succeeded; it never resolves with
\* undefined.
C20_ResolvesOnlyWithData ==
    frPc = "returned" =>
        /\ frResult = [kind |-> "returned", value |-> "data"]
        /\ requests # << >>
        /\ requests[Len(requests)] = 200

====
